---- MODULE Spec2Model ----
(***************************************************************************)
(* Model of retico_multilingual_tts/multilingual_tts.py:                   *)
(* MultilingualTTSModule (text ingestion in process_update, one            *)
(* _synthesize thread per finalized utterance, the periodic _tts_thread    *)
(* started by prepare_run) and CoquiTTS.synthesize with its file cache.    *)
(*                                                                         *)
(* Threads interleave at the granularity of their accesses to the shared   *)
(* fields (audio_buffer, sample_rate, tts, _tts_thread_active, the cache   *)
(* directory): every action below is one such access together with the     *)
(* thread-local code around it.                                            *)
(***************************************************************************)
EXTENDS Integers, Sequences, FiniteSets, TLC

(***************************************************************************)
(* Bounds of the model.                                                    *)
(***************************************************************************)
MaxUtterances == 2      \* synthesis threads started (dispatches)
MaxMsgLen == 2          \* increments per update message
MaxOut == 2             \* frames appended downstream
MaxRuns == 1            \* prepare_run() calls (scheduler threads started)
MaxRestarts == 2        \* prepare_run() calls when the module is run again
MaxTagged == 2          \* increments delivered when every language tag is tried

(***************************************************************************)
(* Program constants.                                                      *)
(***************************************************************************)
InitialSampleRate == 22050      \* self.sample_rate = 22050
samplewidth == 2                \* self.samplewidth = 2
\* frame_duration = 0.2, kept as the fraction FrameDurNum / FrameDurDen
FrameDurNum == 1
FrameDurDen == 5

MULTILINGUAL_MODEL == "tts_models/multilingual/multi-dataset/xtts_v2"

None == "None"

LANGUAGE_MAPPING ==
    [l \in {"all", "de", "en", "es", "fr", "fi", "hu", "it", "ja", "lv", "nl", "pl",
            "pt"} |->
        CASE l = "all" -> <<MULTILINGUAL_MODEL, "Brenda Stern">>
          [] l = "de" -> <<"tts_models/de/thorsten/vits", None>>
          [] l = "en" -> <<"tts_models/en/ljspeech/vits", None>>
          [] l = "es" -> <<"tts_models/es/css10/vits", None>>
          [] l = "fr" -> <<"tts_models/fr/css10/vits", None>>
          [] l = "fi" -> <<"tts_models/fi/css10/vits", None>>
          [] l = "hu" -> <<"tts_models/hu/css10/vits", None>>
          [] l = "it" -> <<"tts_models/it/mai_female/vits", None>>
          [] l = "ja" -> <<"tts_models/ja/kokoro/tacotron2-DDC", None>>
          [] l = "lv" -> <<"tts_models/lv/cv/vits", None>>
          [] l = "nl" -> <<"tts_models/nl/css10/vits", None>>
          [] l = "pl" -> <<"tts_models/pl/mai_female/vits", None>>
          [] l = "pt" -> <<"tts_models/pt/cv/vits", None>>]

\* a lookup whose default is the English entry
MappingGetEnglishDefault(l) ==
    IF l \in DOMAIN LANGUAGE_MAPPING THEN LANGUAGE_MAPPING[l] ELSE LANGUAGE_MAPPING["en"]

\* dict.get(key, default)
MappingGet(l) ==
    IF l \in DOMAIN LANGUAGE_MAPPING THEN LANGUAGE_MAPPING[l] ELSE LANGUAGE_MAPPING["all"]

\* self.tts.synthesizer.output_sample_rate of the loaded model: XTTS v2
\* renders at 24 kHz, the single-language models at 22.05 kHz.
OutputSampleRate(model) == IF model = MULTILINGUAL_MODEL THEN 24000 ELSE 22050

(***************************************************************************)
(* Inputs: the incremental units (TextIU) the framework delivers.  A text  *)
(* is a sequence of characters.                                            *)
(***************************************************************************)
ADD == "ADD"
REVOKE == "REVOKE"
COMMIT == "COMMIT"
UpdateTypes == {ADD, REVOKE, COMMIT}

\* the text fragments of the utterances
Fragments ==
    <<[text |-> <<"H","e","l","l","o">>, language |-> None, committed |-> FALSE],
      [text |-> <<"w","o","r","l","d",".">>, language |-> "en", committed |-> FALSE],
      [text |-> <<"o","k">>, language |-> "en", committed |-> TRUE],
      [text |-> <<"H","i">>, language |-> "xx", committed |-> FALSE],
      [text |-> <<"e","h","?","!">>, language |-> None, committed |-> FALSE]>>

FragmentIds == DOMAIN Fragments

\* the language tags of the further IUs: the keys of the mapping that no
\* fragment carries
TaggedLanguages ==
    <<"all", "de", "es", "fr", "fi", "hu", "it", "ja", "lv", "nl", "pl", "pt">>

\* one IU per such tag
Tagged ==
    [k \in DOMAIN TaggedLanguages |->
        [text |-> <<"a">>, language |-> TaggedLanguages[k], committed |-> FALSE]]

IU == Fragments \o Tagged

IUIds == DOMAIN IU

\* the language argument of the constructor
CtorLanguages == {None, "de", "zz"}

\* every key of the mapping, no language and a language that is no key
EveryCtorLanguage == DOMAIN LANGUAGE_MAPPING \cup {None, "zz"}

\* lengths in bytes of the waveforms the synthesizer may return: one frame,
\* or two frames of which the second is padded
WaveLens == {4000, 12000}

\* the waveform returned while the scheduler threads run
CoreWaveLens == {12000}

(***************************************************************************)
(* Pure functions.                                                         *)
(***************************************************************************)
RECURSIVE JoinNoSeparator(_)
\* "".join(texts)
JoinNoSeparator(texts) ==
    IF texts = <<>> THEN <<>> ELSE texts[1] \o JoinNoSeparator(Tail(texts))

RECURSIVE Join(_)
\* " ".join(texts)
Join(texts) ==
    IF texts = <<>> THEN <<>>
    ELSE IF Len(texts) = 1 THEN texts[1]
    ELSE texts[1] \o <<" ">> \o Join(Tail(texts))

\* any(p in text for p in ".!?")
HasTerminal(text) == \E i \in 1..Len(text) : text[i] \in {".", "!", "?"}

\* " ".join(iu.text for iu in current_input)
TextOf(input) == Join([i \in 1..Len(input) |-> IU[input[i]].text])

\* int(sample_rate * frame_duration) * samplewidth
FrameBytes(rate) == ((rate * FrameDurNum) \div FrameDurDen) * samplewidth

\* b"\x00" * (samplewidth * int(sample_rate * frame_duration))
Silence(rate) ==
    [utt |-> 0, idx |-> 0, data |-> 0,
     len |-> samplewidth * ((rate * FrameDurNum) \div FrameDurDen)]

\* new_audio[i : i + frame_bytes], zero-padded on the right to frame_bytes
Chunk(u, wavlen, i, fb) ==
    LET n == IF wavlen - i < fb THEN wavlen - i ELSE fb
    IN [utt |-> u, idx |-> i, data |-> n, len |-> IF n < fb THEN fb ELSE n]

\* self.current_input without iu (AbstractModule.revoke)
RECURSIVE Remove(_, _)
Remove(input, iu) ==
    IF input = <<>> THEN <<>>
    ELSE IF Head(input) = iu THEN Remove(Tail(input), iu)
    ELSE <<Head(input)>> \o Remove(Tail(input), iu)

\* CoquiTTS(model_name=model, speaker=speaker, language=language)
CoquiTTS(model, speaker, lang) ==
    [model_name |-> model, speaker |-> speaker, language |-> lang,
     sample_rate |-> OutputSampleRate(model)]

\* self.tts before the first update: the attribute is not set
NoTTS == [model_name |-> None, speaker |-> None, language |-> None, sample_rate |-> 0]

\* latest_input_iu = None
NoIU == 0

\* the loop variables (iu, ut) outside the loop of process_update
NoIncrement == <<NoIU, "None">>

(***************************************************************************)
(* State.                                                                  *)
(***************************************************************************)
VARIABLES
    wished_language,      \* self.wished_language
    language,             \* self.language
    tts,                  \* self.tts
    sample_rate,          \* self.sample_rate
    current_input,        \* self.current_input (ids of the pending IUs)
    latest_input_iu,      \* self.latest_input_iu
    latest_text,          \* self._latest_text
    audio_buffer,         \* self.audio_buffer
    tts_thread_active,    \* self._tts_thread_active
    cache,                \* the cache directory: the files [text, model_name, wav]
    pu_pc,                \* process_update: position of the ingestion thread
    pu_left,              \* process_update: increments of the message not yet reached
    pu_inc,               \* process_update: the increment (iu, ut) being processed
    final,                \* process_update: the local variable final
    synth,                \* the _synthesize threads, in the order they were started
    sched,                \* the _tts_thread threads, in the order they were started
    out,                  \* the update messages appended downstream, in order
    added,                \* history: the ids of the IUs added so far, in order
    adds_only             \* history: every update applied so far was an ADD

vars == <<wished_language, language, tts, sample_rate, current_input, latest_input_iu,
          latest_text, audio_buffer, tts_thread_active, cache, pu_pc, pu_left, pu_inc,
          final, synth, sched, out, added, adds_only>>

\* lines 52-63: MultilingualTTSModule(language=l)
Construct(l) ==
    /\ wished_language = IF l \in DOMAIN LANGUAGE_MAPPING THEN l ELSE None
    /\ language = None
    /\ tts = NoTTS
    /\ sample_rate = InitialSampleRate
    /\ current_input = <<>>
    /\ latest_input_iu = NoIU
    /\ latest_text = <<>>
    /\ audio_buffer = <<>>
    /\ tts_thread_active = FALSE
    /\ cache = {}
    /\ pu_pc = "idle"
    /\ pu_left = 0
    /\ pu_inc = NoIncrement
    /\ final = FALSE
    /\ synth = <<>>
    /\ sched = <<>>
    /\ out = <<>>
    /\ added = <<>>
    /\ adds_only = TRUE

Init == \E l \in CtorLanguages : Construct(l)

InitLanguage == \E l \in EveryCtorLanguage : Construct(l)

(***************************************************************************)
(* process_update(update_message), run by the module's ingestion thread.   *)
(***************************************************************************)
Increments == FragmentIds \X UpdateTypes

\* the ADD of every IU, whatever its language tag
TaggedIncrements == IUIds \X {ADD}

\* the increments delivered while the synthesis and scheduler threads run
CoreIncrements == {<<1, ADD>>, <<2, ADD>>, <<1, COMMIT>>}

\* The framework adds an IU once; COMMIT and REVOKE may name any IU.
Deliverable(inc) ==
    inc[2] = ADD => \A j \in 1..Len(added) : added[j] # inc[1]

\* lines 69-71: a message of n increments arrives; an empty one returns at once
BeginUpdate(n) ==
    /\ pu_pc = "idle"
    /\ Len(synth) + n <= MaxUtterances
    /\ final' = FALSE
    /\ pu_left' = n
    /\ pu_pc' = IF n = 0 THEN "idle" ELSE "next"
    /\ UNCHANGED <<wished_language, language, tts, sample_rate, current_input,
                   latest_input_iu, latest_text, audio_buffer, tts_thread_active, cache,
                   pu_inc, synth, sched, out, added, adds_only>>

\* lines 74-77
SelectedLanguage(iu) ==
    IF wished_language = None /\ IU[iu].language # None
    THEN IU[iu].language
    ELSE IF wished_language # None THEN wished_language ELSE "all"

\* line 73 to line 79: the next increment (iu, ut) of the message, its language
\* and its synthesizer
SelectModel(inc) ==
    /\ pu_pc = "next"
    /\ Deliverable(inc)
    /\ LET lang == SelectedLanguage(inc[1])
           entry == MappingGet(lang)
       IN /\ language' = lang
          /\ tts' = CoquiTTS(entry[1], entry[2], lang)
    /\ pu_inc' = inc
    /\ pu_left' = pu_left - 1
    /\ pu_pc' = "rate"
    /\ UNCHANGED <<wished_language, sample_rate, current_input, latest_input_iu,
                   latest_text, audio_buffer, tts_thread_active, cache, final, synth,
                   sched, out, added, adds_only>>

\* line 80
SetSampleRate ==
    /\ pu_pc = "rate"
    /\ sample_rate' = tts.sample_rate
    /\ pu_pc' = "apply"
    /\ UNCHANGED <<wished_language, language, tts, current_input, latest_input_iu,
                   latest_text, audio_buffer, tts_thread_active, cache, pu_left, pu_inc,
                   final, synth, sched, out, added, adds_only>>

\* lines 81-89: the pending utterance and final after the update (iu, ut)
InputAfter(input, iu, ut) ==
    IF ut = ADD THEN Append(input, iu)
    ELSE IF ut = REVOKE THEN Remove(input, iu)
    ELSE input

\* a COMMIT that does not finalize
FinalAfterAddOnly(fin, iu, ut) ==
    IF ut = ADD THEN (fin \/ IU[iu].committed) ELSE fin

\* lines 84-85 and 88-89: final after the update (iu, ut)
FinalAfter(fin, iu, ut) ==
    IF ut = ADD THEN (fin \/ IU[iu].committed)
    ELSE IF ut = COMMIT THEN TRUE
    ELSE fin

\* a test that fires on any text, not only on a terminal marker
FinalizesOnAnyText(fin, text) == fin \/ Len(text) > 0

\* line 92
Finalizes(fin, text) == fin \/ HasTerminal(text)

\* lines 81-96: apply the update, then clear the frame buffer on finalization
ApplyUpdate ==
    /\ pu_pc = "apply"
    /\ LET iu == pu_inc[1]
           ut == pu_inc[2]
           input == InputAfter(current_input, iu, ut)
           fin == FinalAfter(final, iu, ut)
           text == TextOf(input)
       IN /\ current_input' = input
          /\ final' = fin
          /\ latest_input_iu' = IF ut = ADD THEN iu ELSE latest_input_iu
          /\ added' = IF ut = ADD THEN Append(added, iu) ELSE added
          /\ adds_only' = (adds_only /\ ut = ADD)
          /\ IF Finalizes(fin, text)
             THEN /\ latest_text' = text
                  /\ audio_buffer' = <<>>
                  /\ pu_pc' = "dispatch"
                  /\ pu_inc' = pu_inc
             ELSE /\ UNCHANGED <<latest_text, audio_buffer>>
                  /\ pu_pc' = IF pu_left = 0 THEN "idle" ELSE "next"
                  /\ pu_inc' = NoIncrement
    /\ UNCHANGED <<wished_language, language, tts, sample_rate, tts_thread_active, cache,
                   pu_left, synth, sched, out>>

\* the threads that have not finished: started, in the synthesizer or appending
Busy(threads) == {t \in 1..Len(threads) : threads[t].pc \in {"start", "tts", "loop"}}

\* threading.Thread(target=self._synthesize, args=(text,)).start(): a thread that
\* has not run yet.  History: selected is the synthesizer selected for the
\* increment that is dispatched (the thread is not given it); overtook says
\* that an earlier thread had not finished when this one was started; prior
\* and during are set by the lookup.
NewSynth(text, threads, selected) ==
    [text |-> text, pc |-> "start", model |-> None, invoked |-> FALSE,
     wav |-> 0, fb |-> 0, i |-> 0, selected |-> selected,
     overtook |-> (Busy(threads) # {}), prior |-> {}, during |-> {}]

\* a dispatch that waits until no earlier synthesis is running
DispatchWaitsForSynthesis ==
    /\ pu_pc = "dispatch"
    /\ Busy(synth) = {}
    /\ synth' = Append(synth, NewSynth(latest_text, synth, tts))
    /\ current_input' = <<>>
    /\ pu_pc' = IF pu_left = 0 THEN "idle" ELSE "next"
    /\ pu_inc' = NoIncrement
    /\ UNCHANGED <<wished_language, language, tts, sample_rate, latest_input_iu,
                   latest_text, audio_buffer, tts_thread_active, cache, pu_left,
                   final, sched, out, added, adds_only>>

\* a dispatch that keeps the pending utterance
DispatchKeepsPending ==
    /\ pu_pc = "dispatch"
    /\ synth' = Append(synth, NewSynth(latest_text, synth, tts))
    /\ pu_pc' = IF pu_left = 0 THEN "idle" ELSE "next"
    /\ pu_inc' = NoIncrement
    /\ UNCHANGED <<wished_language, language, tts, sample_rate, current_input,
                   latest_input_iu, latest_text, audio_buffer, tts_thread_active, cache,
                   pu_left, final, sched, out, added, adds_only>>

\* lines 98-103: start the synthesis thread and empty the pending utterance
Dispatch ==
    /\ pu_pc = "dispatch"
    /\ synth' = Append(synth, NewSynth(latest_text, synth, tts))
    /\ current_input' = <<>>
    /\ pu_pc' = IF pu_left = 0 THEN "idle" ELSE "next"
    /\ pu_inc' = NoIncrement
    /\ UNCHANGED <<wished_language, language, tts, sample_rate, latest_input_iu,
                   latest_text, audio_buffer, tts_thread_active, cache, pu_left,
                   final, sched, out, added, adds_only>>

(***************************************************************************)
(* _synthesize(text), one thread per dispatch, and CoquiTTS.synthesize.    *)
(***************************************************************************)
SynthIds == 1..Len(synth)

\* os.path.exists(cache_path): the key is sha256(text + model_name)
Cached(text, model) == {f \in cache : f.text = text /\ f.model = model}

\* a cache that is never written
CacheWriteNothing(files, text, model, wav) == files

\* open(cache_path, "wb").write(data)
CacheWrite(files, text, model, wav) ==
    {f \in files : ~(f.text = text /\ f.model = model)}
        \cup {[text |-> text, model |-> model, wav |-> wav]}

\* the thread after self.tts.synthesize(text) has returned wav: line 109 and
\* the start of the loop of line 110
Returned(th, wav, rate) ==
    IF wav > 0
    THEN [th EXCEPT !.wav = wav, !.fb = FrameBytes(rate), !.i = 0, !.pc = "loop"]
    ELSE [th EXCEPT !.wav = wav, !.pc = "done"]

\* the threads whose call of synthesize has returned a waveform
HasReturned(threads) ==
    {t \in 1..Len(threads) : threads[t].pc \in {"loop", "done"}}

\* the threads inside the synthesizer call
InSynthesizer(threads) == {t \in 1..Len(threads) : threads[t].pc = "tts"}

\* line 107 up to line 166: the thread reads self.tts and looks the text up
\* in the cache; on a hit synthesize returns the file
SynthLookup(t) ==
    /\ synth[t].pc = "start"
    /\ LET model == tts.model_name
           hit == Cached(synth[t].text, model)
           th == [synth[t] EXCEPT !.model = model,
                                  !.prior = HasReturned(synth),
                                  !.during = InSynthesizer(synth)]
       IN IF hit # {}
          THEN \E f \in hit :
                 synth' = [synth EXCEPT ![t] = Returned(th, f.wav, sample_rate)]
          ELSE synth' = [synth EXCEPT ![t] = [th EXCEPT !.invoked = TRUE, !.pc = "tts"]]
    /\ UNCHANGED <<wished_language, language, tts, sample_rate, current_input,
                   latest_input_iu, latest_text, audio_buffer, tts_thread_active, cache,
                   pu_pc, pu_left, pu_inc, final, sched, out, added, adds_only>>

\* lines 168-183: the model returns a waveform, which is written to the cache
SynthReturn(t, wav) ==
    /\ synth[t].pc = "tts"
    /\ cache' = CacheWrite(cache, synth[t].text, synth[t].model, wav)
    /\ synth' = [synth EXCEPT ![t] = Returned(synth[t], wav, sample_rate)]
    /\ UNCHANGED <<wished_language, language, tts, sample_rate, current_input,
                   latest_input_iu, latest_text, audio_buffer, tts_thread_active,
                   pu_pc, pu_left, pu_inc, final, sched, out, added, adds_only>>

\* the thread after the synthesizer has raised: the exception ends the thread
Raised(th) == [th EXCEPT !.pc = "raised"]

\* a failure of the synthesizer that stops the module
SynthRaiseStopsModule(t) ==
    /\ synth[t].pc = "tts"
    /\ synth' = [synth EXCEPT ![t] = Raised(synth[t])]
    /\ tts_thread_active' = FALSE
    /\ UNCHANGED <<wished_language, language, tts, sample_rate, current_input,
                   latest_input_iu, latest_text, audio_buffer, cache,
                   pu_pc, pu_left, pu_inc, final, sched, out, added, adds_only>>

\* lines 168-171: the model raises
SynthRaise(t) ==
    /\ synth[t].pc = "tts"
    /\ synth' = [synth EXCEPT ![t] = Raised(synth[t])]
    /\ UNCHANGED <<wished_language, language, tts, sample_rate, current_input,
                   latest_input_iu, latest_text, audio_buffer, tts_thread_active, cache,
                   pu_pc, pu_left, pu_inc, final, sched, out, added, adds_only>>

\* lines 110-114: one iteration of the loop
SynthAppend(t) ==
    /\ synth[t].pc = "loop"
    /\ LET th == synth[t]
           next == th.i + th.fb
       IN /\ audio_buffer' = Append(audio_buffer, Chunk(t, th.wav, th.i, th.fb))
          /\ synth' = [synth EXCEPT ![t] =
                IF next < th.wav
                THEN [th EXCEPT !.i = next]
                ELSE [th EXCEPT !.i = 0, !.fb = 0, !.pc = "done"]]
    /\ UNCHANGED <<wished_language, language, tts, sample_rate, current_input,
                   latest_input_iu, latest_text, tts_thread_active, cache,
                   pu_pc, pu_left, pu_inc, final, sched, out, added, adds_only>>

(***************************************************************************)
(* prepare_run(), shutdown() and _tts_thread(), one thread per             *)
(* prepare_run.                                                            *)
(***************************************************************************)
SchedIds == 1..Len(sched)

NoFrame == [utt |-> 0, idx |-> 0, data |-> 0, len |-> 0]

\* lines 129-133
prepare_run ==
    /\ audio_buffer' = <<>>
    /\ tts_thread_active' = TRUE
    /\ sched' = Append(sched, [pc |-> "while", raw_audio |-> NoFrame])
    /\ UNCHANGED <<wished_language, language, tts, sample_rate, current_input,
                   latest_input_iu, latest_text, cache, pu_pc, pu_left, pu_inc, final,
                   synth, out, added, adds_only>>

\* lines 135-136
shutdown ==
    /\ tts_thread_active' = FALSE
    /\ UNCHANGED <<wished_language, language, tts, sample_rate, current_input,
                   latest_input_iu, latest_text, audio_buffer, cache, pu_pc, pu_left,
                   pu_inc,
                   final, synth, sched, out, added, adds_only>>

\* line 118: the test of the loop, then the thread sleeps (line 119) or ends
SchedWhile(s) ==
    /\ sched[s].pc = "while"
    /\ sched' = [sched EXCEPT ![s].pc = IF tts_thread_active THEN "sleep" ELSE "exit"]
    /\ UNCHANGED <<wished_language, language, tts, sample_rate, current_input,
                   latest_input_iu, latest_text, audio_buffer, tts_thread_active, cache,
                   pu_pc, pu_left, pu_inc, final, synth, out, added, adds_only>>

\* lines 119-123: the sleep ends and the buffer is tested; an empty buffer
\* gives a silence frame
SchedWake(s) ==
    /\ sched[s].pc = "sleep"
    /\ sched' = IF audio_buffer # <<>>
                THEN [sched EXCEPT ![s].pc = "pop"]
                ELSE [sched EXCEPT ![s].pc = "emit", ![s].raw_audio = Silence(sample_rate)]
    /\ UNCHANGED <<wished_language, language, tts, sample_rate, current_input,
                   latest_input_iu, latest_text, audio_buffer, tts_thread_active, cache,
                   pu_pc, pu_left, pu_inc, final, synth, out, added, adds_only>>

\* line 121: popleft() raises IndexError on a deque emptied since the test
SchedPop(s) ==
    /\ sched[s].pc = "pop"
    /\ IF audio_buffer # <<>>
       THEN /\ sched' = [sched EXCEPT ![s].pc = "emit", ![s].raw_audio = Head(audio_buffer)]
            /\ audio_buffer' = Tail(audio_buffer)
       ELSE /\ sched' = [sched EXCEPT ![s].pc = "raised"]
            /\ UNCHANGED audio_buffer
    /\ UNCHANGED <<wished_language, language, tts, sample_rate, current_input,
                   latest_input_iu, latest_text, tts_thread_active, cache,
                   pu_pc, pu_left, pu_inc, final, synth, out, added, adds_only>>

\* lines 124-125: iu.set_audio(raw_audio, 1, self.sample_rate, self.samplewidth)
AudioIU(raw, rate) ==
    [utt |-> raw.utt, idx |-> raw.idx, data |-> raw.data, len |-> raw.len, rate |-> rate]

\* lines 124-127: the frame is appended downstream
SchedEmit(s) ==
    /\ sched[s].pc = "emit"
    /\ Len(out) < MaxOut
    /\ out' = Append(out, AudioIU(sched[s].raw_audio, sample_rate))
    /\ sched' = [sched EXCEPT ![s].pc = "while", ![s].raw_audio = NoFrame]
    /\ UNCHANGED <<wished_language, language, tts, sample_rate, current_input,
                   latest_input_iu, latest_text, audio_buffer, tts_thread_active, cache,
                   pu_pc, pu_left, pu_inc, final, synth, added, adds_only>>

(***************************************************************************)
(* The module and its threads.                                             *)
(***************************************************************************)
Next ==
    \/ \E n \in 0..MaxMsgLen : BeginUpdate(n)
    \/ \E inc \in CoreIncrements : SelectModel(inc)
    \/ SetSampleRate
    \/ ApplyUpdate
    \/ Dispatch
    \/ \E t \in SynthIds : SynthLookup(t)
    \/ \E t \in SynthIds, wav \in CoreWaveLens : SynthReturn(t, wav)
    \/ \E t \in SynthIds : SynthRaise(t)
    \/ \E t \in SynthIds : SynthAppend(t)
    \/ (Len(sched) < MaxRuns /\ prepare_run)
    \/ shutdown
    \/ \E s \in SchedIds : SchedWhile(s)
    \/ \E s \in SchedIds : SchedWake(s)
    \/ \E s \in SchedIds : SchedPop(s)
    \/ \E s \in SchedIds : SchedEmit(s)

Spec == Init /\ [][Next]_vars

(***************************************************************************)
(* The ingestion thread alone, fed every increment of the IU table: the     *)
(* threads it starts are not scheduled and the scheduler is not started.   *)
(***************************************************************************)
NextText ==
    \/ \E n \in 0..MaxMsgLen : BeginUpdate(n)
    \/ \E inc \in Increments : SelectModel(inc)
    \/ SetSampleRate
    \/ ApplyUpdate
    \/ Dispatch

SpecText == Init /\ [][NextText]_vars

(***************************************************************************)
(* The synthesis threads with every outcome of the synthesizer, fed the     *)
(* core increments; the scheduler is not started.                          *)
(***************************************************************************)
NextSynth ==
    \/ \E n \in 0..MaxMsgLen : BeginUpdate(n)
    \/ \E inc \in CoreIncrements : SelectModel(inc)
    \/ SetSampleRate
    \/ ApplyUpdate
    \/ Dispatch
    \/ \E t \in SynthIds : SynthLookup(t)
    \/ \E t \in SynthIds, wav \in WaveLens : SynthReturn(t, wav)
    \/ \E t \in SynthIds : SynthRaise(t)
    \/ \E t \in SynthIds : SynthAppend(t)

SpecSynth == Init /\ [][NextSynth]_vars

(***************************************************************************)
(* One utterance and a module that is run, stopped and run again.          *)
(***************************************************************************)
NextRestart ==
    \/ BeginUpdate(1)
    \/ SelectModel(<<2, ADD>>)
    \/ SetSampleRate
    \/ ApplyUpdate
    \/ Dispatch
    \/ \E t \in SynthIds : SynthLookup(t)
    \/ \E t \in SynthIds, wav \in CoreWaveLens : SynthReturn(t, wav)
    \/ \E t \in SynthIds : SynthAppend(t)
    \/ (Len(sched) < MaxRestarts /\ prepare_run)
    \/ shutdown
    \/ \E s \in SchedIds : SchedWhile(s)
    \/ \E s \in SchedIds : SchedWake(s)
    \/ \E s \in SchedIds : SchedPop(s)
    \/ \E s \in SchedIds : SchedEmit(s)

SpecRestart == Init /\ [][NextRestart]_vars

(***************************************************************************)
(* The ingestion thread of a module constructed with any language, fed     *)
(* IUs of every language tag.                                              *)
(***************************************************************************)
NextLanguage ==
    \/ (Len(added) < MaxTagged /\ BeginUpdate(1))
    \/ \E inc \in TaggedIncrements : SelectModel(inc)
    \/ SetSampleRate
    \/ ApplyUpdate
    \/ Dispatch

SpecLanguage == InitLanguage /\ [][NextLanguage]_vars

(***************************************************************************)
(* The module run once, with synthesizer calls that succeed and a          *)
(* scheduler thread that is scheduled fairly: a step of _tts_thread that   *)
(* can be taken (the loop test, the end of the sleep, the popleft, the     *)
(* append downstream) is taken eventually.                                 *)
(***************************************************************************)
\* the increments delivered to the fairly scheduled module
FairIncrements == {<<2, ADD>>, <<1, COMMIT>>}

\* a step of the scheduler thread s
SchedStep(s) == SchedWhile(s) \/ SchedWake(s) \/ SchedPop(s) \/ SchedEmit(s)

NextFair ==
    \/ BeginUpdate(1)
    \/ \E inc \in FairIncrements : SelectModel(inc)
    \/ SetSampleRate
    \/ ApplyUpdate
    \/ Dispatch
    \/ \E t \in SynthIds : SynthLookup(t)
    \/ \E t \in SynthIds, wav \in CoreWaveLens : SynthReturn(t, wav)
    \/ \E t \in SynthIds : SynthAppend(t)
    \/ (Len(sched) < MaxRuns /\ prepare_run)
    \/ shutdown
    \/ \E s \in SchedIds : SchedWhile(s)
    \/ \E s \in SchedIds : SchedWake(s)
    \/ \E s \in SchedIds : SchedPop(s)
    \/ \E s \in SchedIds : SchedEmit(s)

SpecFair ==
    /\ Init
    /\ [][NextFair]_vars
    /\ \A s \in 1..MaxRuns : WF_vars(s \in SchedIds /\ SchedStep(s))

(***************************************************************************)
(* Properties.                                                             *)
(***************************************************************************)
\* the step appends a frame downstream
Emits == Len(out') = Len(out) + 1

\* C1: once an utterance has been dispatched while the thread of an earlier
\* one had not finished, every frame emitted is silence or a frame of the
\* latest dispatched utterance.
C1_OnlyLatestUtteranceAfterDispatch ==
    [][(Len(synth) >= 2 /\ synth[Len(synth)].overtook /\ Emits)
          => out'[Len(out')].utt \in {0, Len(synth)}]_vars

\* C3: while the module is shut down (the flag is cleared) no frame is
\* appended downstream.
C3_NoFrameAfterShutdown ==
    [][~tts_thread_active => Len(out') = Len(out)]_vars

\* C4: every silence frame emitted (a tick that found the buffer empty) is all
\* zero and as long as sample_rate * frame_duration * sample_width for the
\* sample rate reported with it, and a tick that finds the buffer empty goes on
\* to emit.
C4_SilenceFrameOfReportedRate ==
    /\ \A k \in 1..Len(out) : out[k].utt = 0 =>
          /\ out[k].data = 0
          /\ out[k].len * FrameDurDen = out[k].rate * FrameDurNum * samplewidth
    /\ \A s \in SchedIds : sched[s].pc = "emit" => sched[s].raw_audio.len > 0

\* C5: the synthesized frames of an utterance are emitted in the order in
\* which they were appended to the buffer, each at most once.
C5_FramesEmittedInOrder ==
    \A j, k \in 1..Len(out) :
        (j < k /\ out[j].utt # 0 /\ out[j].utt = out[k].utt) => out[j].idx < out[k].idx

\* the step is the update of lines 81-96 applied to the increment (iu, ut)
Applies == pu_pc = "apply" /\ pu_pc' # "apply"

\* the step neither clears the frame buffer nor leads to a thread being started
NoDispatch == pu_pc' # "dispatch" /\ audio_buffer' = audio_buffer /\ synth' = synth

\* no increment of ids carries committed = True
NoneCommitted(ids) == \A k \in 1..Len(ids) : ~IU[ids[k]].committed

\* C2 as claimed: as long as only ADD increments have been processed and
\* their accumulated text holds no terminal marker, no synthesis thread has
\* been started and the ingestion path has not cleared the buffer, whatever the
\* committed flags.
C2_NoMarkerNoDispatch ==
    (adds_only /\ ~HasTerminal(TextOf(added)))
        => (Len(synth) = 0 /\ pu_pc # "dispatch")

\* C2 as amended: the same for ADD increments none of which carries
\* committed = True; and every such ADD, applied when no earlier increment of
\* its message has finalized, clears no buffer and starts no thread.
C2_UncommittedNoMarkerNoDispatch ==
    /\ [](((adds_only /\ NoneCommitted(added) /\ ~HasTerminal(TextOf(added)))
            => (Len(synth) = 0 /\ pu_pc # "dispatch")))
    /\ [][(/\ Applies
           /\ pu_inc[2] = ADD
           /\ ~final
           /\ ~IU[pu_inc[1]].committed
           /\ ~HasTerminal(TextOf(Append(current_input, pu_inc[1]))))
          => NoDispatch]_vars

\* C2 witness: two uncommitted ADDs without marker have been processed, in two
\* messages or one, and nothing was dispatched.
C2_Witness ==
    /\ adds_only
    /\ added = <<1, 4>>
    /\ current_input = <<1, 4>>
    /\ pu_pc = "idle"
    /\ Len(synth) = 0

\* the threads that have made their request (called synthesize)
Requested == {t \in SynthIds : synth[t].pc # "start"}

\* two requests for the same (text, model) pair
SamePair(i, j) ==
    /\ i # j
    /\ synth[i].text = synth[j].text
    /\ synth[i].model = synth[j].model

\* one of the two requests was inside the synthesizer when the other was made
Overlap(i, j) == i \in synth[j].during \/ j \in synth[i].during

\* C6 as claimed: of two requests for the same (text, model) pair, made one
\* after the other or concurrently, at most one invokes the synthesizer, and
\* both return the same bytes.
C6_SynthesizerInvokedAtMostOnce ==
    \A i, j \in Requested : SamePair(i, j) =>
        /\ ~(synth[i].invoked /\ synth[j].invoked)
        /\ ({i, j} \subseteq HasReturned(synth) => synth[i].wav = synth[j].wav)

\* C6 as amended: a request made after a request for the same pair has
\* returned its bytes does not invoke the synthesizer; and when no two
\* requests for a pair overlap, at most one of those that return has invoked
\* the synthesizer and all of them return the same bytes.
C6_LaterRequestReadsCache ==
    /\ \A i, j \in Requested :
          (SamePair(i, j) /\ i \in synth[j].prior) => ~synth[j].invoked
    /\ \A i, j \in Requested \cap HasReturned(synth) :
          (/\ SamePair(i, j)
           /\ \A k, l \in Requested : (SamePair(k, l) /\ SamePair(k, i)) => ~Overlap(k, l)
           /\ \A k \in Requested : SamePair(k, i) => ~Overlap(k, i))
          => /\ synth[i].wav = synth[j].wav
             /\ ~(synth[i].invoked /\ synth[j].invoked)

\* C6 witness: the second request for a pair was made after the first had
\* returned; it has returned the same bytes without invoking the synthesizer.
C6_Witness ==
    /\ Len(synth) = 2
    /\ SamePair(1, 2)
    /\ synth[1].invoked
    /\ 1 \in synth[2].prior
    /\ synth[2].pc = "done"
    /\ ~synth[2].invoked
    /\ synth[2].wav = synth[1].wav

\* the ids of the pending IUs
Pending == {current_input[k] : k \in 1..Len(current_input)}

\* C7: a REVOKE of an IU that is not pending leaves the pending utterance as it
\* is, and when the pending text has no terminal marker it clears no buffer
\* and starts no synthesis.
C7_RevokeOfUnknownIsNoOp ==
    [][(Applies /\ pu_inc[2] = REVOKE /\ pu_inc[1] \notin Pending)
          => /\ current_input' = current_input
             /\ ~HasTerminal(TextOf(current_input)) => NoDispatch]_vars

\* the texts of the IUs ids
TextsOf(ids) == [k \in 1..Len(ids) |-> IU[ids[k]].text]

RECURSIVE StartOf(_, _)
\* where the k-th text starts in the texts joined by single spaces
StartOf(texts, k) ==
    IF k = 1 THEN 0 ELSE StartOf(texts, k - 1) + Len(texts[k - 1]) + 1

\* s is texts, in order, separated by single spaces
SpaceJoined(texts, s) ==
    /\ Len(s) = StartOf(texts, Len(texts)) + Len(texts[Len(texts)])
    /\ \A k \in 1..Len(texts) :
          /\ \A c \in 1..Len(texts[k]) : s[StartOf(texts, k) + c] = texts[k][c]
          /\ k > 1 => s[StartOf(texts, k)] = " "

\* only ADDs so far, and the last is the first to bring a terminal marker
MarkerFirstInLast ==
    /\ adds_only
    /\ added # <<>>
    /\ HasTerminal(IU[added[Len(added)]].text)
    /\ \A k \in 1..(Len(added) - 1) : ~HasTerminal(IU[added[k]].text)

\* exactly one dispatch, of the texts of all added fragments joined by spaces:
\* the thread is about to be started or has been started
OneDispatchOfAllAdded ==
    \/ /\ pu_pc = "dispatch"
       /\ Len(synth) = 0
       /\ SpaceJoined(TextsOf(added), latest_text)
    \/ /\ pu_pc # "dispatch"
       /\ Len(synth) = 1
       /\ SpaceJoined(TextsOf(added), synth[1].text)

\* C8 as claimed: after ADD increments of which the last is the first to bring
\* a terminal marker, and no COMMIT, exactly one dispatch has happened, on the
\* last increment, of the texts of all added fragments joined by single spaces.
C8_OneDispatchOfJoinedText == MarkerFirstInLast => OneDispatchOfAllAdded

\* C8 as amended: the same when no added increment carries committed = True.
C8_UncommittedOneDispatchOfJoinedText ==
    (MarkerFirstInLast /\ NoneCommitted(added)) => OneDispatchOfAllAdded

\* C8 witness: "Hello" then "world." were added and one thread was started
\* with the text "Hello world.".
C8_Witness ==
    /\ adds_only
    /\ added = <<1, 2>>
    /\ Len(synth) = 1
    /\ synth[1].text = <<"H", "e", "l", "l", "o", " ", "w", "o", "r", "l", "d", ".">>

\* the threads whose synthesizer call has raised
Failed == {t \in SynthIds : synth[t].pc = "raised"}

\* the frames that are buffered, held by a scheduler thread or emitted
FramesOf(t) ==
    {k \in 1..Len(audio_buffer) : audio_buffer[k].utt = t}
        \cup {s \in SchedIds : sched[s].raw_audio.utt = t}
        \cup {k \in 1..Len(out) : out[k].utt = t}

\* C9: a synthesis thread whose synthesizer call raises ends without having
\* appended a frame and stays ended; the failure changes nothing of the
\* ingestion path, of the scheduler threads, of the buffer or of the other
\* synthesis threads; and the scheduler goes on: after a failure a sleeping
\* scheduler thread can wake, a tick that finds the buffer empty takes a
\* silence frame, and the frame it holds can be emitted.
C9_SynthesizerFailureIsContained ==
    /\ [](\A t \in Failed : FramesOf(t) = {})
    /\ [][\A t \in SynthIds :
            (synth[t].pc = "tts" /\ synth'[t].pc = "raised")
               => /\ UNCHANGED <<wished_language, language, tts, sample_rate,
                                 current_input, latest_input_iu, latest_text,
                                 audio_buffer, tts_thread_active, cache, pu_pc, pu_left,
                                 pu_inc, final, sched, out>>
                  /\ \A u \in SynthIds \ {t} : synth'[u] = synth[u]]_vars
    /\ [][\A t \in Failed : synth'[t] = synth[t]]_vars
    /\ [](Failed # {} =>
            \A s \in SchedIds :
               /\ sched[s].pc = "sleep" => ENABLED SchedWake(s)
               /\ (sched[s].pc = "emit" /\ Len(out) < MaxOut) => ENABLED SchedEmit(s))
    /\ [][\A s \in SchedIds :
            (Failed # {} /\ sched[s].pc = "sleep" /\ sched'[s].pc # "sleep"
                /\ audio_buffer = <<>>)
               => (sched'[s].pc = "emit" /\ sched'[s].raw_audio = Silence(sample_rate))]_vars

\* C9 witness: the synthesizer call of the only utterance has raised and the
\* running scheduler holds a silence frame, one frame having been emitted.
C9_Witness ==
    /\ Len(synth) = 1
    /\ synth[1].pc = "raised"
    /\ tts_thread_active
    /\ audio_buffer = <<>>
    /\ Len(sched) = 1
    /\ sched[1].pc = "emit"
    /\ sched[1].raw_audio = Silence(sample_rate)
    /\ Len(out) = 1

\* C10: the ingestion thread is never blocked: whatever the synthesis and
\* scheduler threads are doing, the next step of a process_update call can be
\* taken, and a new call can begin.
C10_IngestionNeverWaits ==
    /\ pu_pc = "next" => ENABLED (\E inc \in CoreIncrements : SelectModel(inc))
    /\ pu_pc = "rate" => ENABLED SetSampleRate
    /\ pu_pc = "apply" => ENABLED ApplyUpdate
    /\ pu_pc = "dispatch" => ENABLED Dispatch
    /\ (pu_pc = "idle" /\ Len(synth) < MaxUtterances) => ENABLED BeginUpdate(1)

\* C10 witness: the call that dispatched "world." has returned and a further
\* increment has been processed while the thread of "world." is inside the
\* synthesizer and the scheduler sleeps.
C10_Witness ==
    /\ Len(synth) = 1
    /\ synth[1].pc = "tts"
    /\ synth[1].text = <<"w", "o", "r", "l", "d", ".">>
    /\ pu_pc = "idle"
    /\ current_input = <<1>>
    /\ Len(sched) = 1
    /\ sched[1].pc = "sleep"

\* the text part occurs in the text whole, at some position
Occurs(part, whole) ==
    \E o \in 0..(Len(whole) - Len(part)) :
        \A c \in 1..Len(part) : whole[o + c] = part[c]

\* C11: every finalization resets the pending utterance to empty and
\* unfinalized.  The step that starts a synthesis thread empties the pending
\* utterance; no pending fragment is part of a dispatched text; and once a
\* dispatch has happened, the ADD of an uncommitted fragment that leaves the
\* pending text without terminal marker only appends the fragment: it clears
\* no buffer and starts no thread, also in the message of the finalizing
\* increment.
C11_FinalizationResetsPending ==
    /\ [][Len(synth') > Len(synth) => current_input' = <<>>]_vars
    /\ [](\A p \in Pending, t \in SynthIds : ~Occurs(IU[p].text, synth[t].text))
    /\ [][(/\ Applies
           /\ Len(synth) >= 1
           /\ pu_inc[2] = ADD
           /\ ~IU[pu_inc[1]].committed
           /\ ~HasTerminal(TextOf(Append(current_input, pu_inc[1]))))
          => /\ NoDispatch
             /\ current_input' = Append(current_input, pu_inc[1])]_vars

\* the step starts exactly one synthesis thread, for the text, and leaves the
\* threads already started alone
StartsOneThread(text) ==
    /\ Len(synth') = Len(synth) + 1
    /\ synth'[Len(synth')].text = text
    /\ synth'[Len(synth')].pc = "start"
    /\ \A t \in SynthIds : synth'[t] = synth[t]

\* C12: every increment that is a COMMIT, or after whose application the
\* current text holds a terminal marker, goes on to a dispatch of the current
\* text of that moment: the next step of process_update starts exactly one
\* synthesis thread with that text, and threads are started in no other way.
\* A COMMIT does so whatever the pending utterance, the empty one included.
C12_FinalizingIncrementDispatchesOnce ==
    /\ [][(Applies /\ (pu_inc[2] = COMMIT \/ HasTerminal(TextOf(current_input'))))
            => /\ pu_pc' = "dispatch"
               /\ latest_text' = TextOf(current_input')]_vars
    /\ [](pu_pc = "dispatch" => latest_text = TextOf(current_input))
    /\ [][(pu_pc = "dispatch" /\ pu_pc' # "dispatch")
            => StartsOneThread(TextOf(current_input))]_vars
    /\ [][synth' # synth => pu_pc = "dispatch"]_vars

\* C12 witness: a COMMIT delivered while nothing was pending has started one
\* thread, with the empty text.
C12_Witness ==
    /\ added = <<>>
    /\ Len(synth) = 1
    /\ synth[1].text = <<>>
    /\ pu_pc = "idle"

\* the utterances (synthesis threads) that have a frame in the buffer
Buffered == {audio_buffer[k].utt : k \in 1..Len(audio_buffer)}

\* the synthesis threads inside the loop that appends to the buffer
Appending == {t \in SynthIds : synth[t].pc = "loop"}

\* C13: the frame buffer never holds frames of two utterances, and at most
\* one synthesis thread is appending to it at a time.
C13_BufferOfOneUtterance ==
    /\ Cardinality(Buffered) <= 1
    /\ Cardinality(Appending) <= 1

\* C14: the step of process_update that finalizes leaves the frame buffer
\* empty, and the buffer is empty when the thread of the new utterance is
\* started.
C14_BufferEmptyAtDispatch ==
    /\ [][(Applies /\ pu_pc' = "dispatch") => audio_buffer' = <<>>]_vars
    /\ [][Len(synth') > Len(synth) => (audio_buffer = <<>> /\ audio_buffer' = <<>>)]_vars

\* C15: every frame emitted, synthesized or silence, is exactly as long as
\* sample_rate * frame_duration * sample_width for the sample rate reported
\* with it, the waveform's bytes in it being followed by zero padding only.
C15_FrameLengthOfReportedRate ==
    \A k \in 1..Len(out) :
        /\ out[k].len * FrameDurDen = out[k].rate * FrameDurNum * samplewidth
        /\ out[k].data <= out[k].len

\* the step selects language and synthesizer for the next increment
Selects == pu_pc = "next" /\ pu_pc' = "rate"

\* model and voice of the synthesizer
ModelAndVoice(synthesizer) == <<synthesizer.model_name, synthesizer.speaker>>

\* C16: a constructor language that is no key of the mapping is not kept as
\* fixed.  With no language fixed, an increment whose language tag is no key
\* of the mapping selects the default entry, the multilingual model and its
\* voice, and an increment whose tag is a key selects the entry of that key;
\* with a language fixed the entry of that language is selected.  The
\* selection never fails: it can be made for every IU that can be delivered.
C16_LanguageSelection ==
    /\ [](wished_language \in DOMAIN LANGUAGE_MAPPING \cup {None})
    /\ [][Selects =>
            LET tag == IU[pu_inc'[1]].language
            IN /\ (wished_language = None /\ tag # None /\ tag \notin DOMAIN LANGUAGE_MAPPING)
                     => /\ ModelAndVoice(tts') = LANGUAGE_MAPPING["all"]
                        /\ tts'.model_name = MULTILINGUAL_MODEL
               /\ (wished_language = None /\ tag \in DOMAIN LANGUAGE_MAPPING)
                     => ModelAndVoice(tts') = LANGUAGE_MAPPING[tag]
               /\ wished_language # None
                     => ModelAndVoice(tts') = LANGUAGE_MAPPING[wished_language]]_vars
    /\ [](pu_pc = "next" =>
            \A inc \in TaggedIncrements : Deliverable(inc) => ENABLED SelectModel(inc))

\* C16 witness: with no language fixed, the increment tagged "xx" has selected
\* the multilingual model and its voice.
C16_Witness ==
    /\ wished_language = None
    /\ pu_pc = "rate"
    /\ pu_inc = <<4, ADD>>
    /\ language = "xx"
    /\ ModelAndVoice(tts) = <<MULTILINGUAL_MODEL, "Brenda Stern">>

\* C17: every synthesis thread synthesizes with the model that was selected
\* for the increment that triggered its dispatch, and chunks the waveform in
\* frames of the sample rate of that model.
C17_SynthesizedWithSelectedConfiguration ==
    \A t \in SynthIds :
        /\ synth[t].model # None => synth[t].model = synth[t].selected.model_name
        /\ synth[t].pc = "loop" => synth[t].fb = FrameBytes(synth[t].selected.sample_rate)

\* the scheduler threads inside the body of their loop: sleeping, taking a
\* frame or emitting it
Ticking == {s \in SchedIds : sched[s].pc \in {"sleep", "pop", "emit"}}

\* C18: whatever the calls of prepare_run and shutdown, at most one scheduler
\* thread is inside its loop, draining the buffer and emitting frames.
C18_OneSchedulerThread == Cardinality(Ticking) <= 1

\* process_update is between two increments or has returned
BetweenIncrements == pu_pc \in {"idle", "next"}

\* C19: whenever an increment has been processed, the text of the pending
\* utterance holds no terminal marker; an increment that brings one into the
\* text goes on to the dispatch, which empties the pending utterance before
\* the next increment is taken.
C19_NoMarkerStaysPending ==
    /\ [](BetweenIncrements => ~HasTerminal(TextOf(current_input)))
    /\ [][(Applies /\ HasTerminal(TextOf(current_input'))) => pu_pc' = "dispatch"]_vars
    /\ [][(pu_pc = "dispatch" /\ pu_pc' # "dispatch")
            => (BetweenIncrements' /\ current_input' = <<>>)]_vars

\* C19 witness: the fragment "eh?!" was added after "Hello", the two were
\* dispatched together and nothing is pending.
C19_Witness ==
    /\ added = <<1, 5>>
    /\ Len(synth) = 1
    /\ synth[1].text = <<"H", "e", "l", "l", "o", " ", "e", "h", "?", "!">>
    /\ current_input = <<>>
    /\ pu_pc = "idle"

\* the scheduler has been started and is not stopped
Running == Len(sched) >= 1 /\ tts_thread_active

\* utterance n is the latest dispatched and its thread has appended all its
\* frames
LatestDone(n) == Len(synth) = n /\ synth[n].pc = "done" /\ pu_pc # "dispatch"

\* no frame is buffered or held by a scheduler thread: every frame appended
\* has been emitted or dropped
Drained == audio_buffer = <<>> /\ \A s \in SchedIds : sched[s].raw_audio.utt = 0

\* C20: when the scheduler is running and the thread of the latest utterance
\* has completed, then eventually the buffer is empty and every frame taken
\* from it has been emitted, unless a further utterance is dispatched, the
\* module is shut down or MaxOut frames have been emitted.
C20_FramesEventuallyDrained ==
    \A n \in 1..MaxUtterances :
        (LatestDone(n) /\ Running)
            ~> (Drained \/ Len(synth) > n \/ ~tts_thread_active \/ Len(out) = MaxOut)

====
